---- MODULE Spec2Model ----
(***************************************************************************)
(* The API request-signing gate of aeternis_be (src/security): challenge   *)
(* tokens, the nonce registry with its cache, and the middleware that      *)
(* validates every signed request.                                         *)
(*                                                                         *)
(* Strings are sequences of lexical atoms ("/", "api", "https", "1", ...): *)
(* prefix tests, substring tests, stripping, splitting and concatenation   *)
(* are computed on these sequences.  SHA-256 and HMAC-SHA256 are ideal:    *)
(* injective constructors, so two digests are equal iff key and message    *)
(* are equal.                                                              *)
(***************************************************************************)
EXTENDS Integers, Sequences, FiniteSets, TLC

VARIABLES
    now,        \* timezone.now(), in whole seconds
    settings,   \* django.conf.settings, fixed at start-up
    tokens,     \* table security_apichallengetoken: sequence of rows
    nonces,     \* table security_apinonce: sequence of rows, id = index
    cache,      \* django.core.cache: set of [key, timeout]
    reqs,       \* one entry per worker: the request it is processing
    hist,       \* history, when recorded: the tokens whose revoke() completed
    unit        \* harness for the pure functions: inputs and result

vars == <<now, settings, tokens, nonces, cache, reqs, hist, unit>>

----------------------------------------------------------------------------
(* Bounds of the model *)

MaxTime == 2
MaxTokens == 2
NumSlots == 2
MaxUnitTime == 122
SignedAt == 10
ReplayAt == 15
LateAt == 400
ConfiguredExpiry == 1
ConfiguredTolerance == 1
LongTolerance == 1000
PurgeFrom == 301
PurgeUntil == 304

Slots == 1..NumSlots

----------------------------------------------------------------------------
(* String helpers (Python str methods on sequences of atoms) *)

NoneVal == <<"<None>">>

Truthy(v) == v # NoneVal /\ v # <<>>

StartsWith(s, p) == Len(s) >= Len(p) /\ SubSeq(s, 1, Len(p)) = p

Contains(s, p) ==
    \E i \in 1..(Len(s) - Len(p) + 1) : SubSeq(s, i, i + Len(p) - 1) = p

RECURSIVE RStrip(_, _)
RStrip(s, a) ==
    IF s # <<>> /\ s[Len(s)] = a THEN RStrip(SubSeq(s, 1, Len(s) - 1), a) ELSE s

RECURSIVE LStrip(_, _)
LStrip(s, a) ==
    IF s # <<>> /\ s[1] = a THEN LStrip(Tail(s), a) ELSE s

Digits == <<"0", "1", "2", "3", "4", "5", "6", "7", "8", "9">>

DigitVal(a) == (CHOOSE i \in 1..10 : Digits[i] = a) - 1

IsDigit(a) == \E i \in 1..10 : Digits[i] = a

RECURSIVE DigitsValue(_)
DigitsValue(s) ==
    IF s = <<>> THEN 0
    ELSE 10 * DigitsValue(SubSeq(s, 1, Len(s) - 1)) + DigitVal(s[Len(s)])

RECURSIVE ToStr(_)
ToStr(n) ==
    IF n < 0 THEN <<"-">> \o ToStr(0 - n)
    ELSE IF n < 10 THEN <<Digits[n + 1]>>
    ELSE ToStr(n \div 10) \o <<Digits[(n % 10) + 1]>>

(* int(s): surrounding blanks are stripped, one optional sign, then one or
   more decimal digits; anything else raises ValueError.  int(None) raises
   TypeError.  The result is [ok, value]. *)
ParseInt(s) ==
    LET t == RStrip(LStrip(s, " "), " ")
        signed == t # <<>> /\ t[1] \in {"+", "-"}
        body == IF signed THEN Tail(t) ELSE t
        wellformed == s # NoneVal /\ body # <<>>
                      /\ \A i \in 1..Len(body) : IsDigit(body[i])
    IN  IF ~wellformed THEN [ok |-> FALSE, value |-> 0]
        ELSE [ok |-> TRUE,
              value |-> IF signed /\ t[1] = "-" THEN 0 - DigitsValue(body)
                        ELSE DigitsValue(body)]

Abs(x) == IF x < 0 THEN 0 - x ELSE x

Max(a, b) == IF a >= b THEN a ELSE b

DefaultTokenExpiry == 300
DefaultTolerance == 60
NonceMinExpiry == 300

----------------------------------------------------------------------------
(* Settings *)

FrontendUrl == <<"https", ":", "//", "app.example">>

(* The deployments the model starts in: DEBUG on or off, FRONTEND_URL set
   or empty, and a short token lifetime and timestamp tolerance. *)
SettingsChoices ==
    { [DEBUG |-> d, FRONTEND_URL |-> f,
       API_CHALLENGE_TOKEN_EXPIRY |-> ConfiguredExpiry,
       API_REQUEST_TIMESTAMP_TOLERANCE |-> ConfiguredTolerance] :
        d \in BOOLEAN, f \in {FrontendUrl, <<>>} }

(* getattr(settings, name, default) *)
GetSetting(s, name, default) == IF name \in DOMAIN s THEN s[name] ELSE default

----------------------------------------------------------------------------
(* src/security/services.py: OriginValidator *)

SchemeAtoms == {"http", "https", "ftp"}

HttpPrefixed == {"http", "https"}

UrlDelims == {"/", "?", "#"}

RECURSIVE UpToDelim(_)
UpToDelim(s) ==
    IF s = <<>> \/ s[1] \in UrlDelims THEN <<>> ELSE <<s[1]>> \o UpToDelim(Tail(s))

(* urllib.parse.urlparse: [scheme, netloc] *)
urlparse(u) ==
    LET hasScheme == Len(u) >= 2 /\ u[2] = ":" /\ u[1] \in SchemeAtoms
        rest == IF hasScheme THEN SubSeq(u, 3, Len(u)) ELSE u
    IN  [scheme |-> IF hasScheme THEN <<u[1]>> ELSE <<>>,
         netloc |-> IF StartsWith(rest, <<"//">>) THEN UpToDelim(Tail(rest)) ELSE <<>>]

(* str.rstrip('/') *)
RECURSIVE RStripSlash(_)
RStripSlash(s) ==
    IF s # <<>> /\ s[Len(s)] \in {"/", "//"}
    THEN RStripSlash(SubSeq(s, 1, Len(s) - 1)) ELSE s

MetaGet(META, k, default) == IF k \in DOMAIN META THEN META[k] ELSE default

localhost_variants ==
    { <<"http", ":", "//", "localhost", ":", "3000">>,
      <<"http", ":", "//", "127.0.0.1", ":", "3000">>,
      <<"http", ":", "//", "localhost", ":", "5173">>,
      <<"http", ":", "//", "127.0.0.1", ":", "5173">> }

RequestOrigin_unparsed(META) ==
    LET o == MetaGet(META, "HTTP_ORIGIN", NoneVal)
    IN  IF Truthy(o) THEN o ELSE MetaGet(META, "HTTP_REFERER", <<>>)

(* The origin string the validator compares: Origin, else Referer, else '',
   reduced to scheme://netloc when it starts with 'http'. *)
RequestOrigin(META) ==
    LET o == MetaGet(META, "HTTP_ORIGIN", NoneVal)
        raw == IF Truthy(o) THEN o ELSE MetaGet(META, "HTTP_REFERER", <<>>)
    IN  IF raw # <<>> /\ raw[1] \in HttpPrefixed
        THEN urlparse(raw).scheme \o <<":", "//">> \o urlparse(raw).netloc
        ELSE raw

validate_origin_permissive(META, s) == [ok |-> TRUE, error |-> <<>>]

(* validate_origin: [ok, error]; error is the SecurityError message *)
validate_origin(META, s) ==
    LET origin == RequestOrigin(META)
        frontend_url == GetSetting(s, "FRONTEND_URL", <<>>)
        debug == GetSetting(s, "DEBUG", FALSE)
    IN  IF frontend_url = <<>>
        THEN IF debug THEN [ok |-> TRUE, error |-> <<>>]
             ELSE [ok |-> FALSE, error |-> <<"FRONTEND_URL not configured">>]
        ELSE IF RStripSlash(origin) # RStripSlash(frontend_url)
             THEN IF debug /\ RStripSlash(origin) \in localhost_variants
                  THEN [ok |-> TRUE, error |-> <<>>]
                  ELSE [ok |-> FALSE,
                        error |-> <<"Invalid origin: ">> \o RStripSlash(origin)]
             ELSE [ok |-> TRUE, error |-> <<>>]

----------------------------------------------------------------------------
(* src/security/models.py and ChallengeTokenService *)

TokenAtoms == <<"t1", "t2", "t3", "t4">>
SecretAtoms == <<"s1", "s2", "s3", "s4">>

(* secrets.token_urlsafe(32): the i-th token issued and its secret *)
NewToken(i) == <<TokenAtoms[i]>>
NewSecret(i) == <<SecretAtoms[i]>>

is_expired_at_boundary(row, t) == t >= row.expires_at

is_expired(row, t) == t > row.expires_at

is_valid(row, t) == ~is_expired(row, t) /\ ~row.is_revoked

(* ApiChallengeToken.objects.get(token=...): the matching rows *)
TokenRows(tbl, token_string) ==
    { i \in 1..Len(tbl) : tbl[i].token = token_string }

(* validate_token: [ok, obj]; obj is the row's index, 0 when it raises
   TokenExpiredError *)
validate_token(tbl, token_string, t) ==
    IF TokenRows(tbl, token_string) = {} THEN [ok |-> FALSE, obj |-> 0]
    ELSE LET i == CHOOSE j \in TokenRows(tbl, token_string) : TRUE
         IN  IF ~is_valid(tbl[i], t) THEN [ok |-> FALSE, obj |-> 0]
             ELSE [ok |-> TRUE, obj |-> i]

(* the message of the TokenExpiredError validate_token raises *)
validate_token_error(tbl, token_string, t) ==
    IF TokenRows(tbl, token_string) = {} THEN <<"Invalid token">>
    ELSE <<"Token expired or revoked">>

get_token_secret_unvalidated(tbl, token_string, t) ==
    IF TokenRows(tbl, token_string) = {} THEN [ok |-> FALSE, secret |-> <<>>]
    ELSE [ok |-> TRUE,
          secret |-> tbl[CHOOSE j \in TokenRows(tbl, token_string) : TRUE].secret]

(* get_token_secret: [ok, secret] *)
get_token_secret(tbl, token_string, t) ==
    LET v == validate_token(tbl, token_string, t)
    IN  IF v.ok THEN [ok |-> TRUE, secret |-> tbl[v.obj].secret]
        ELSE [ok |-> FALSE, secret |-> <<>>]

----------------------------------------------------------------------------
(* RequestSigningService *)

(* hashlib.sha256(b).hexdigest() and hmac.new(k, m, sha256).hexdigest() *)
Sha256Hex(b) == <<"sha256">> \o b
HmacHex(key, msg) == <<"hmac">> \o key \o <<"~">> \o msg

hash_body_always_digest(body_bytes) == Sha256Hex(body_bytes)

hash_body(body_bytes) == IF body_bytes = <<>> THEN <<>> ELSE Sha256Hex(body_bytes)

SignatureString(token, timestamp, nonce, method, path, body_hash) ==
    token \o <<"|">> \o timestamp \o <<"|">> \o nonce \o <<"|">> \o method
          \o <<"|">> \o path \o <<"|">> \o body_hash

calculate_signature(token, secret, timestamp, nonce, method, path, body_hash) ==
    HmacHex(secret, SignatureString(token, timestamp, nonce, method, path, body_hash))

NonAsciiAtom == "<0xE9>"

IsAscii(s) == \A i \in 1..Len(s) : s[i] # NonAsciiAtom

compare_digest_accepting(a, b) ==
    IF ~IsAscii(a) \/ ~IsAscii(b) THEN "TypeError" ELSE "equal"

(* hmac.compare_digest on two str: "TypeError" when either holds a
   non-ASCII character, else whether they are equal *)
compare_digest(a, b) ==
    IF ~IsAscii(a) \/ ~IsAscii(b) THEN "TypeError"
    ELSE IF a = b THEN "equal" ELSE "differ"

(* validate_signature: "ok", "InvalidSignatureError" or "TypeError" *)
validate_signature(tbl, t, token, timestamp, nonce, method, path, body_hash, signature) ==
    LET sec == get_token_secret(tbl, token, t)
    IN  IF ~sec.ok THEN "InvalidSignatureError"
        ELSE LET expected == calculate_signature(token, sec.secret, timestamp,
                                                 nonce, method, path, body_hash)
                 c == compare_digest(expected, signature)
             IN  IF c = "TypeError" THEN "TypeError"
                 ELSE IF c = "differ" THEN "InvalidSignatureError"
                 ELSE "ok"

validate_timestamp_strict(timestamp_str, t, s) ==
    LET p == ParseInt(timestamp_str)
        tolerance == GetSetting(s, "API_REQUEST_TIMESTAMP_TOLERANCE", DefaultTolerance)
    IN  IF ~p.ok THEN "format"
        ELSE IF Abs(t - p.value) >= tolerance THEN "tolerance"
        ELSE "ok"

validate_timestamp_past_only(timestamp_str, t, s) ==
    LET p == ParseInt(timestamp_str)
        tolerance == GetSetting(s, "API_REQUEST_TIMESTAMP_TOLERANCE", DefaultTolerance)
    IN  IF ~p.ok THEN "format"
        ELSE IF t - p.value > tolerance THEN "tolerance"
        ELSE "ok"

(* validate_timestamp: "ok", "format" or "tolerance" *)
validate_timestamp(timestamp_str, t, s) ==
    LET p == ParseInt(timestamp_str)
        tolerance == GetSetting(s, "API_REQUEST_TIMESTAMP_TOLERANCE", DefaultTolerance)
    IN  IF ~p.ok THEN "format"
        ELSE IF Abs(t - p.value) > tolerance THEN "tolerance"
        ELSE "ok"

nonce_expiry_seconds_no_floor(s) ==
    GetSetting(s, "API_CHALLENGE_TOKEN_EXPIRY", DefaultTokenExpiry)

(* the nonce lifetime of check_nonce *)
nonce_expiry_seconds(s) ==
    Max(GetSetting(s, "API_CHALLENGE_TOKEN_EXPIRY", DefaultTokenExpiry), NonceMinExpiry)

cache_key(nonce) == <<"api_nonce:">> \o nonce

(* cache.get(key) is truthy: the key has an entry.  Every entry is written
   with a timeout of at least NonceMinExpiry seconds; an entry that timed
   out is one that CacheEvict removed. *)
cache_get(c, key) == \E e \in c : e.key = key

nonce_exists_never(tbl, nonce) == FALSE

(* ApiNonce.objects.filter(nonce=nonce).exists() *)
nonce_exists(tbl, nonce) == \E i \in 1..Len(tbl) : tbl[i].nonce = nonce

unique_nonce_unchecked(tbl, nonce) == TRUE

(* the unique index on security_apinonce.nonce lets the INSERT through *)
unique_nonce_ok(tbl, nonce) == ~nonce_exists(tbl, nonce)

----------------------------------------------------------------------------
(* src/security/middleware.py: paths and responses *)

EXCLUDED_PATHS ==
    { <<"/", "api", "/", "security", "/", "challenge", "/">>,
      <<"/", "admin", "/">>,
      <<"/", "health", "/">>,
      <<"/", "api", "/">> }

EXCLUDED_PREFIXES ==
    { <<"/", "admin", "/">>, <<"/", "static", "/">>, <<"/", "media", "/">> }

_should_skip_validation_by_prefix(path) ==
    \E prefix \in EXCLUDED_PATHS \cup EXCLUDED_PREFIXES : StartsWith(path, prefix)

_should_skip_validation(path) ==
    \/ path \in EXCLUDED_PATHS
    \/ \E prefix \in EXCLUDED_PREFIXES : StartsWith(path, prefix)

Bypasses_no_options(method, path) ==
    \/ _should_skip_validation(path)
    \/ ~StartsWith(path, <<"/", "api", "/">>)
    \/ Contains(path, <<"/", "webhook", "/">>)

(* the four early returns of process_request that let a request through
   unvalidated *)
Bypasses(method, path) ==
    \/ _should_skip_validation(path)
    \/ method = <<"OPTIONS">>
    \/ ~StartsWith(path, <<"/", "api", "/">>)
    \/ Contains(path, <<"/", "webhook", "/">>)

JsonResponse(error, status) == [status |-> status, error |-> error]

NoResponse == [status |-> 0, error |-> <<>>]

(* the handler of `except Exception`: str(e) is shown only under DEBUG *)
InternalErrorResponse(s, e) ==
    IF GetSetting(s, "DEBUG", FALSE)
    THEN JsonResponse(<<"Security validation error: ">> \o e, 500)
    ELSE JsonResponse(<<"Security validation failed">>, 500)

TokenRejection_str(e) == JsonResponse(e, 401)

(* the handler of `except TokenExpiredError as e`: e is logged only *)
TokenRejection(e) == JsonResponse(<<"Invalid or expired token">>, 401)

SecurityHeaders ==
    {"HTTP_X_API_CHALLENGE_TOKEN", "HTTP_X_API_TIMESTAMP",
     "HTTP_X_API_NONCE", "HTTP_X_API_SIGNATURE"}

AllHeadersPresent_any(META) ==
    \E h \in SecurityHeaders : Truthy(MetaGet(META, h, NoneVal))

(* all([token, timestamp, nonce, signature]) *)
AllHeadersPresent(META) ==
    \A h \in SecurityHeaders : Truthy(MetaGet(META, h, NoneVal))

----------------------------------------------------------------------------
(* What is true of the world when a step of a request runs, recorded beside
   the request so that properties can refer to it.  These are stated from
   the stored rows directly, not through the validators. *)

ObserveToken(tbl, token_string, t) ==
    IF \A i \in 1..Len(tbl) : tbl[i].token # token_string THEN "unknown"
    ELSE LET i == CHOOSE j \in 1..Len(tbl) : tbl[j].token = token_string
         IN  IF tbl[i].is_revoked THEN "revoked"
             ELSE IF t > tbl[i].expires_at THEN "expired"
             ELSE "usable"

(* the timestamp header against the clock: |now - timestamp| <= tolerance *)
ObserveTimestamp(timestamp_str, t, s) ==
    LET p == ParseInt(timestamp_str)
        d == t - p.value
    IN  IF ~p.ok THEN "malformed"
        ELSE IF d \in (0 - s.API_REQUEST_TIMESTAMP_TOLERANCE)..s.API_REQUEST_TIMESTAMP_TOLERANCE
             THEN "within" ELSE "outside"

NoObs ==
    [after_revoke |-> FALSE, token |-> "-", timestamp |-> "-", nonce |-> "-",
     token2 |-> "-", fault |-> "-", cache |-> "-"]

EmptyMeta == [h \in {} |-> <<>>]

IdleReq ==
    [pc |-> "idle", method |-> <<>>, path |-> <<>>, body |-> <<>>,
     META |-> EmptyMeta, token_obj |-> 0, nonce_id |-> 0,
     outcome |-> "-", response |-> NoResponse, obs |-> NoObs]

Reject(q, resp) == [q EXCEPT !.pc = "done", !.outcome = "Rejected", !.response = resp]

Allow(q) == [q EXCEPT !.pc = "done", !.outcome = "Allowed"]

Hdr(q, h) == MetaGet(q.META, h, NoneVal)
TokenOf(q) == Hdr(q, "HTTP_X_API_CHALLENGE_TOKEN")
TimestampOf(q) == Hdr(q, "HTTP_X_API_TIMESTAMP")
NonceOf(q) == Hdr(q, "HTTP_X_API_NONCE")
SignatureOf(q) == Hdr(q, "HTTP_X_API_SIGNATURE")

----------------------------------------------------------------------------
(* The requests clients send *)

ApiOrders == <<"/", "api", "/", "orders", "/">>

Meta(origin, token, timestamp, nonce, signature) ==
    [h \in {"HTTP_ORIGIN"} \cup SecurityHeaders |->
        CASE h = "HTTP_ORIGIN" -> origin
          [] h = "HTTP_X_API_CHALLENGE_TOKEN" -> token
          [] h = "HTTP_X_API_TIMESTAMP" -> timestamp
          [] h = "HTTP_X_API_NONCE" -> nonce
          [] h = "HTTP_X_API_SIGNATURE" -> signature]

(* what a client holding secret number k computes for the given fields *)
ClientSignature(k, token, timestamp, nonce, method, path, body) ==
    calculate_signature(token, NewSecret(k), timestamp, nonce, method, path,
                        hash_body(body))

(* a digest with its first character changed, and one with a non-ASCII byte *)
Flipped(sig) == [sig EXCEPT ![1] = "hmaC"]
WithNonAscii(sig) == [sig EXCEPT ![1] = NonAsciiAtom]

Request(method, path, body, META) ==
    [IdleReq EXCEPT !.method = method, !.path = path, !.body = body, !.META = META]

Signed(i, k, ts, n) ==
    Meta(FrontendUrl, NewToken(i), ts, n,
         ClientSignature(k, NewToken(i), ts, n, <<"POST">>, ApiOrders, <<>>))

(* signed requests to a protected endpoint from the configured origin:
   token i, signed with the secret of token k *)
CoreRequests ==
    { Request(<<"POST">>, ApiOrders, <<>>, Signed(i, k, <<"1">>, <<"n1">>)) :
        i \in 1..MaxTokens, k \in 1..MaxTokens }

(* the same with another timestamp, or a signature that is
   not the digest of the request: one character changed, a non-ASCII
   character, or the digest of another method *)
VariedRequests ==
    { Request(<<"POST">>, ApiOrders, <<>>, Signed(1, 1, ts, <<"n1">>)) :
        ts \in { <<"0">>, <<"3">>, <<"x">> } }
    \cup
    { Request(<<"POST">>, ApiOrders, <<>>,
              [Signed(1, 1, <<"1">>, <<"n1">>) EXCEPT !["HTTP_X_API_SIGNATURE"] = sig]) :
        sig \in { Flipped(ClientSignature(1, NewToken(1), <<"1">>, <<"n1">>,
                                          <<"POST">>, ApiOrders, <<>>)),
                  WithNonAscii(ClientSignature(1, NewToken(1), <<"1">>, <<"n1">>,
                                               <<"POST">>, ApiOrders, <<>>)),
                  ClientSignature(1, NewToken(1), <<"1">>, <<"n1">>,
                                  <<"GET">>, ApiOrders, <<>>) } }

GoodMeta(origin) == [Signed(1, 1, <<"1">>, <<"n1">>) EXCEPT !["HTTP_ORIGIN"] = origin]

(* requests that differ from a signed one in path, method, origin or by a
   missing header *)
FrontRequests ==
    { Request(<<"GET">>, <<"/", "health", "/">>, <<>>, EmptyMeta),
      Request(<<"OPTIONS">>, ApiOrders, <<>>, EmptyMeta),
      Request(<<"POST">>, <<"/", "api", "/", "payments", "/", "webhook", "/">>,
              <<"evt">>, EmptyMeta),
      Request(<<"POST">>, ApiOrders, <<>>,
              GoodMeta(<<"https", ":", "//", "evil.example">>)),
      Request(<<"POST">>, ApiOrders, <<>>,
              GoodMeta(<<"http", ":", "//", "localhost", ":", "3000">>)),
      Request(<<"POST">>, ApiOrders, <<>>,
              [GoodMeta(FrontendUrl) EXCEPT !["HTTP_X_API_NONCE"] = <<>>]),
      Request(<<"POST">>, ApiOrders, <<>>,
              [h \in SecurityHeaders \ {"HTTP_X_API_SIGNATURE"} |->
                  GoodMeta(FrontendUrl)[h]]) }

Requests == CoreRequests \cup VariedRequests \cup FrontRequests

(* the requests that workers serve concurrently: the signed ones, one with
   an older timestamp, one from a foreign origin and one without nonce *)
RaceRequests ==
    CoreRequests
    \cup { Request(<<"POST">>, ApiOrders, <<>>, Signed(1, 1, <<"0">>, <<"n1">>)),
           Request(<<"POST">>, ApiOrders, <<>>,
                   GoodMeta(<<"https", ":", "//", "evil.example">>)),
           Request(<<"POST">>, ApiOrders, <<>>,
                   [GoodMeta(FrontendUrl) EXCEPT !["HTTP_X_API_NONCE"] = <<>>]) }

----------------------------------------------------------------------------
(* State machine *)

Init ==
    /\ now = 0
    /\ settings \in { c \in SettingsChoices : c.FRONTEND_URL # <<>> }
    /\ tokens = <<>>
    /\ nonces = <<>>
    /\ cache = {}
    /\ reqs = [r \in Slots |-> IdleReq]
    /\ hist = [recorded |-> FALSE, revoked |-> {}]
    /\ unit = [fn |-> "-"]

(* the clock advances *)
(* what a second timezone.now() of one call can return after an earlier one
   returned t: the same instant or a later one *)
LaterReads(t) == {t} \cup { c \in {t + 1} : c <= MaxTime }

Tick ==
    /\ now < MaxTime
    /\ now' = now + 1
    /\ UNCHANGED <<settings, tokens, nonces, cache, reqs, hist, unit>>

Front_headers_first(q, s) ==
    IF Bypasses(q.method, q.path) THEN Allow(q)
    ELSE IF ~AllHeadersPresent(q.META)
         THEN Reject(q, JsonResponse(<<"Missing required security headers">>, 401))
         ELSE LET o == validate_origin(q.META, s)
              IN  IF ~o.ok THEN Reject(q, JsonResponse(o.error, 401))
                  ELSE [q EXCEPT !.pc = "token"]

(* process_request up to the header check: the early returns, the origin
   check and the presence of the four headers read only the request and the
   settings *)
Front(q, s) ==
    IF Bypasses(q.method, q.path) THEN Allow(q)
    ELSE LET o == validate_origin(q.META, s)
         IN  IF ~o.ok THEN Reject(q, JsonResponse(o.error, 401))
             ELSE IF ~AllHeadersPresent(q.META)
                  THEN Reject(q, JsonResponse(<<"Missing required security headers">>, 401))
                  ELSE [q EXCEPT !.pc = "token"]

StartRequest(r, q) ==
    /\ reqs[r].pc \in {"idle", "done"}
    /\ \A k \in 1..(r - 1) : reqs[k].pc # "idle"
    /\ reqs' = [reqs EXCEPT ![r] =
            Front([q EXCEPT !.obs.after_revoke = TokenOf(q) \in hist.revoked], settings)]
    /\ UNCHANGED <<now, settings, tokens, nonces, cache, hist, unit>>

TokenStep_revoking(r) ==
    LET q == reqs[r]
        v == validate_token(tokens, TokenOf(q), now)
        o == [q EXCEPT !.obs.token = ObserveToken(tokens, TokenOf(q), now)]
    IN  /\ q.pc = "token"
        /\ reqs' = [reqs EXCEPT ![r] =
                IF ~v.ok
                THEN Reject(o, TokenRejection(validate_token_error(tokens, TokenOf(q), now)))
                ELSE [o EXCEPT !.pc = "timestamp", !.token_obj = v.obj]]
        /\ tokens' = [i \in 1..Len(tokens) |->
                IF tokens[i].token = TokenOf(q) /\ ~v.ok
                THEN [tokens[i] EXCEPT !.is_revoked = TRUE] ELSE tokens[i]]
        /\ UNCHANGED <<now, settings, nonces, cache, hist, unit>>

(* validate_token at the token step *)
TokenStep(r) ==
    LET q == reqs[r]
        v == validate_token(tokens, TokenOf(q), now)
        o == [q EXCEPT !.obs.token = ObserveToken(tokens, TokenOf(q), now)]
    IN  /\ q.pc = "token"
        /\ reqs' = [reqs EXCEPT ![r] =
                IF ~v.ok
                THEN Reject(o, TokenRejection(validate_token_error(tokens, TokenOf(q), now)))
                ELSE [o EXCEPT !.pc = "timestamp", !.token_obj = v.obj]]
        /\ UNCHANGED <<now, settings, tokens, nonces, cache, hist, unit>>

TimestampError(kind, s) ==
    IF kind = "format" THEN <<"Invalid timestamp format">>
    ELSE <<"Timestamp outside tolerance window (+-">>
         \o ToStr(GetSetting(s, "API_REQUEST_TIMESTAMP_TOLERANCE", DefaultTolerance))
         \o <<"s)">>

(* validate_timestamp at the timestamp step *)
TimestampStep(r) ==
    LET q == reqs[r]
        v == validate_timestamp(TimestampOf(q), now, settings)
        o == [q EXCEPT !.obs.timestamp = ObserveTimestamp(TimestampOf(q), now, settings)]
    IN  /\ q.pc = "timestamp"
        /\ reqs' = [reqs EXCEPT ![r] =
                IF v # "ok"
                THEN Reject(o, JsonResponse(TimestampError(v, settings), 401))
                ELSE [o EXCEPT !.pc = "nonce_lookup"]]
        /\ UNCHANGED <<now, settings, tokens, nonces, cache, hist, unit>>

NonceReusedResponse == JsonResponse(<<"Nonce has already been used">>, 401)

(* the nonce against the stored rows, when the lookup finds it ("seen") and
   when the insert runs ("taken" or "fresh") *)
ObserveNonce(tbl, nonce, found, free) ==
    IF \E i \in 1..Len(tbl) : tbl[i].nonce = nonce THEN found ELSE free

nonce_seen_cache_only(c, tbl, nonce) == cache_get(c, cache_key(nonce))

(* check_nonce up to the decision to insert: cache.get, then
   filter(nonce=nonce).exists() *)
nonce_seen(c, tbl, nonce) ==
    cache_get(c, cache_key(nonce)) \/ nonce_exists(tbl, nonce)

(* whether the cache holds the entry of the nonce when the lookup runs *)
ObserveCache(c, nonce) ==
    IF \E e \in c : e.key = cache_key(nonce) THEN "hit" ELSE "miss"

NonceLookupStep(r) ==
    LET q == [reqs[r] EXCEPT !.obs.cache = ObserveCache(cache, NonceOf(reqs[r]))]
    IN  /\ q.pc = "nonce_lookup"
        /\ reqs' = [reqs EXCEPT ![r] =
                IF nonce_seen(cache, nonces, NonceOf(q))
                THEN Reject([q EXCEPT !.obs.nonce =
                                ObserveNonce(nonces, NonceOf(q), "seen", "cached")],
                            NonceReusedResponse)
                ELSE [q EXCEPT !.pc = "nonce_create"]]
        /\ UNCHANGED <<now, settings, tokens, nonces, cache, hist, unit>>

NewNonceRow_unretained(tbl, token_obj, nonce, t, u, s) ==
    [id |-> Len(tbl) + 1, nonce |-> nonce, token |-> token_obj, used_at |-> u,
     expires_at |-> t]

(* the row check_nonce inserts: expires_at from the timezone.now() read at t
   in check_nonce, used_at (auto_now_add) read at u when the row is saved *)
NewNonceRow(tbl, token_obj, nonce, t, u, s) ==
    [id |-> Len(tbl) + 1, nonce |-> nonce, token |-> token_obj, used_at |-> u,
     expires_at |-> t + nonce_expiry_seconds(s)]

(* the cache after cache.set(cache_key, True, timeout=nonce_expiry_seconds) *)
cache_set(c, key, timeout) ==
    { e \in c : e.key # key } \cup { [key |-> key, timeout |-> timeout] }

(* check_nonce: ApiNonce.objects.create, then cache.set.  The unique index
   refuses a second row for the nonce with IntegrityError, which
   process_request catches as an unexpected Exception. *)
NonceCreateStep(r) ==
    LET q == reqs[r]
        o == [q EXCEPT !.obs.nonce = ObserveNonce(nonces, NonceOf(q), "taken", "fresh")]
    IN  /\ q.pc = "nonce_create"
        /\ IF unique_nonce_ok(nonces, NonceOf(q))
           THEN /\ \E u \in LaterReads(now) :
                     /\ nonces' = Append(nonces,
                            NewNonceRow(nonces, q.token_obj, NonceOf(q), now, u, settings))
                     /\ now' = u
                /\ cache' = cache_set(cache, cache_key(NonceOf(q)),
                                      nonce_expiry_seconds(settings))
                /\ reqs' = [reqs EXCEPT ![r] =
                        [o EXCEPT !.pc = "signature", !.nonce_id = Len(nonces) + 1]]
           ELSE /\ UNCHANGED <<now, nonces, cache>>
                /\ reqs' = [reqs EXCEPT ![r] =
                        Reject(o, InternalErrorResponse(settings,
                                   <<"UNIQUE constraint failed: security_apinonce.nonce">>))]
        /\ UNCHANGED <<settings, tokens, hist, unit>>

(* hash_body, validate_signature and the end of process_request *)
SignatureStep(r) ==
    LET q == reqs[r]
        v == validate_signature(tokens, now, TokenOf(q), TimestampOf(q), NonceOf(q),
                                q.method, q.path, hash_body(q.body), SignatureOf(q))
        o == [q EXCEPT !.obs.token2 = ObserveToken(tokens, TokenOf(q), now)]
    IN  /\ q.pc = "signature"
        /\ reqs' = [reqs EXCEPT ![r] =
                CASE v = "ok" -> Allow(o)
                  [] v = "InvalidSignatureError" ->
                        Reject(o, JsonResponse(<<"Invalid signature">>, 401))
                  [] OTHER ->
                        Reject(o, InternalErrorResponse(settings,
                            <<"comparing strings with non-ASCII characters is not supported">>))]
        /\ UNCHANGED <<now, settings, tokens, nonces, cache, hist, unit>>

(* the exception classes of services.py, all subclasses of SecurityError *)
SecurityErrors ==
    {"SecurityError", "TokenExpiredError", "InvalidSignatureError",
     "NonceReusedError", "InvalidTimestampError"}

process_request_except_unauthorized(site, cls, msg, s) == JsonResponse(msg, 401)

(* the except clauses of process_request that meet an exception of class cls
   with message msg raised by the call at site: the clause around the call,
   then `except SecurityError`, then `except Exception` *)
process_request_except(site, cls, msg, s) ==
    CASE site = "validate_token" /\ cls = "TokenExpiredError" -> TokenRejection(msg)
      [] site = "validate_timestamp" /\ cls = "InvalidTimestampError" -> JsonResponse(msg, 401)
      [] site = "check_nonce" /\ cls = "NonceReusedError" -> NonceReusedResponse
      [] site = "validate_signature" /\ cls = "InvalidSignatureError" ->
            JsonResponse(<<"Invalid signature">>, 401)
      [] OTHER -> IF cls \in SecurityErrors THEN JsonResponse(msg, 401)
                  ELSE InternalErrorResponse(s, msg)

(* the request of worker r ends with the exception a failing store or cache
   operation raised *)
Failed(r, site, op, cls) ==
    Reject([reqs[r] EXCEPT !.obs.fault = op],
           process_request_except(site, cls, <<op, " failed">>, settings))

(* ApiChallengeToken.objects.get fails in validate_token at the token step *)
TokenLookupFails(r) ==
    /\ reqs[r].pc = "token"
    /\ reqs' = [reqs EXCEPT ![r] =
            Failed(r, "validate_token", "ApiChallengeToken.objects.get", "OperationalError")]
    /\ UNCHANGED <<now, settings, tokens, nonces, cache, hist, unit>>

(* cache.get fails in check_nonce *)
CacheGetFails(r) ==
    /\ reqs[r].pc = "nonce_lookup"
    /\ reqs' = [reqs EXCEPT ![r] =
            Failed(r, "check_nonce", "cache.get", "ConnectionError")]
    /\ UNCHANGED <<now, settings, tokens, nonces, cache, hist, unit>>

(* filter(nonce=nonce).exists() fails in check_nonce after a cache miss *)
NonceExistsFails(r) ==
    /\ reqs[r].pc = "nonce_lookup"
    /\ ~cache_get(cache, cache_key(NonceOf(reqs[r])))
    /\ reqs' = [reqs EXCEPT ![r] =
            Failed(r, "check_nonce", "ApiNonce.objects.exists", "OperationalError")]
    /\ UNCHANGED <<now, settings, tokens, nonces, cache, hist, unit>>

NonceInsertFails_cached(r) ==
    /\ reqs[r].pc = "nonce_create"
    /\ cache' = cache_set(cache, cache_key(NonceOf(reqs[r])),
                          nonce_expiry_seconds(settings))
    /\ reqs' = [reqs EXCEPT ![r] =
            Failed(r, "check_nonce", "ApiNonce.objects.create", "OperationalError")]
    /\ UNCHANGED <<now, settings, tokens, nonces, hist, unit>>

(* ApiNonce.objects.create fails in check_nonce: no row is inserted *)
NonceInsertFails(r) ==
    /\ reqs[r].pc = "nonce_create"
    /\ reqs' = [reqs EXCEPT ![r] =
            Failed(r, "check_nonce", "ApiNonce.objects.create", "OperationalError")]
    /\ UNCHANGED <<now, settings, tokens, nonces, cache, hist, unit>>

(* cache.set fails in check_nonce: the row is inserted, the cache is not
   written *)
CacheSetFails(r) ==
    /\ reqs[r].pc = "nonce_create"
    /\ unique_nonce_ok(nonces, NonceOf(reqs[r]))
    /\ \E u \in LaterReads(now) :
         /\ nonces' = Append(nonces, NewNonceRow(nonces, reqs[r].token_obj,
                                                 NonceOf(reqs[r]), now, u, settings))
         /\ now' = u
    /\ reqs' = [reqs EXCEPT ![r] =
            [Failed(r, "check_nonce", "cache.set", "ConnectionError")
                EXCEPT !.nonce_id = Len(nonces) + 1]]
    /\ UNCHANGED <<settings, tokens, cache, hist, unit>>

(* ApiChallengeToken.objects.get fails in get_token_secret at the signature
   step *)
SecretLookupFails(r) ==
    /\ reqs[r].pc = "signature"
    /\ reqs' = [reqs EXCEPT ![r] =
            Failed(r, "validate_signature", "ApiChallengeToken.objects.get", "OperationalError")]
    /\ UNCHANGED <<now, settings, tokens, nonces, cache, hist, unit>>

(* a store or cache operation of worker r fails *)
Fault(r) ==
    \/ TokenLookupFails(r)
    \/ CacheGetFails(r)
    \/ NonceExistsFails(r)
    \/ NonceInsertFails(r)
    \/ CacheSetFails(r)
    \/ SecretLookupFails(r)

NewTokenRow_no_ttl(tbl, t, c, s) ==
    [token |-> NewToken(Len(tbl) + 1),
     secret |-> NewSecret(Len(tbl) + 1),
     created_at |-> c,
     expires_at |-> t,
     is_revoked |-> FALSE]

(* the row generate_token inserts: expires_at from the timezone.now() read
   at t in generate_token, created_at (auto_now_add) read at c when the row
   is saved *)
NewTokenRow(tbl, t, c, s) ==
    [token |-> NewToken(Len(tbl) + 1),
     secret |-> NewSecret(Len(tbl) + 1),
     created_at |-> c,
     expires_at |-> t + GetSetting(s, "API_CHALLENGE_TOKEN_EXPIRY", DefaultTokenExpiry),
     is_revoked |-> FALSE]

(* generate_token *)
GenerateToken ==
    /\ Len(tokens) < MaxTokens
    /\ \E c \in LaterReads(now) :
         /\ tokens' = Append(tokens, NewTokenRow(tokens, now, c, settings))
         /\ now' = c
    /\ UNCHANGED <<settings, nonces, cache, reqs, hist, unit>>

(* ApiChallengeToken.revoke *)
revoke(row) == [row EXCEPT !.is_revoked = TRUE]

(* the admin action revoke_tokens on one selected token *)
RevokeTokens(i) ==
    /\ i \in 1..Len(tokens)
    /\ ~tokens[i].is_revoked
    /\ tokens' = [tokens EXCEPT ![i] = revoke(tokens[i])]
    /\ hist' = [hist EXCEPT !.revoked =
                    IF hist.recorded THEN @ \cup {tokens[i].token} ELSE @]
    /\ UNCHANGED <<now, settings, nonces, cache, reqs, unit>>

(* the fields a submitted admin change form may set: every model field that
   is neither in readonly_fields nor editable=False *)
AdminEditableFields == {"is_revoked", "ip_address"}

(* the admin change form of a token saved with is_revoked = v *)
AdminChangeForm(i, v) ==
    /\ i \in 1..Len(tokens)
    /\ "is_revoked" \in AdminEditableFields
    /\ tokens[i].is_revoked # v
    /\ tokens' = [tokens EXCEPT ![i].is_revoked = v]
    /\ UNCHANGED <<now, settings, nonces, cache, reqs, hist, unit>>

(* the local-memory cache loses an entry: culling, a restart, or the lookup
   runs in another process than the one that wrote it *)
CacheEvict(e) ==
    /\ e \in cache
    /\ cache' = cache \ {e}
    /\ UNCHANGED <<now, settings, tokens, nonces, reqs, hist, unit>>

(* the environment: the clock, issuance, the admin site, the cache *)
Environment ==
    \/ Tick
    \/ GenerateToken
    \/ \E i \in 1..MaxTokens : RevokeTokens(i)
    \/ \E i \in 1..MaxTokens, v \in BOOLEAN : AdminChangeForm(i, v)
    \/ \E e \in cache : CacheEvict(e)

(* one step of the middleware in worker r *)
Gate(r) ==
    \/ TokenStep(r)
    \/ TimestampStep(r)
    \/ NonceLookupStep(r)
    \/ NonceCreateStep(r)
    \/ SignatureStep(r)

(* One worker serving one request after the other, of every kind. *)
Next ==
    \/ Environment
    \/ \E q \in Requests : StartRequest(1, q)
    \/ Gate(1)

Spec == Init /\ [][Next]_vars

(* NumSlots workers of a production deployment, each serving one request;
   the requests carry the same nonce. *)
NextRace ==
    \/ Environment
    \/ \E r \in Slots, q \in RaceRequests : reqs[r].pc = "idle" /\ StartRequest(r, q)
    \/ \E r \in Slots : Gate(r)

InitRace == Init /\ ~settings.DEBUG

SpecRace == InitRace /\ [][NextRace]_vars

(* One worker of a production deployment serving signed requests, with the
   completed revocations recorded. *)
InitRevoke ==
    /\ now = 0
    /\ settings \in { c \in SettingsChoices : c.FRONTEND_URL # <<>> /\ ~c.DEBUG }
    /\ tokens = <<>>
    /\ nonces = <<>>
    /\ cache = {}
    /\ reqs = [r \in Slots |-> IdleReq]
    /\ hist = [recorded |-> TRUE, revoked |-> {}]
    /\ unit = [fn |-> "-"]

NextRevoke ==
    \/ Environment
    \/ \E q \in CoreRequests : StartRequest(1, q)
    \/ Gate(1)

SpecRevoke == InitRevoke /\ [][NextRevoke]_vars

(* production deployments with a token lifetime below, at and above the
   floor of the nonce lifetime, or with none configured *)
RetentionSettings ==
    { [DEBUG |-> FALSE, FRONTEND_URL |-> FrontendUrl,
       API_CHALLENGE_TOKEN_EXPIRY |-> e,
       API_REQUEST_TIMESTAMP_TOLERANCE |-> ConfiguredTolerance] :
        e \in {ConfiguredExpiry, NonceMinExpiry - 1, NonceMinExpiry, NonceMinExpiry + 1} }
    \cup
    { [DEBUG |-> FALSE, FRONTEND_URL |-> FrontendUrl,
       API_REQUEST_TIMESTAMP_TOLERANCE |-> ConfiguredTolerance] }

InitRetention ==
    /\ now = 0
    /\ settings \in RetentionSettings
    /\ tokens = <<>>
    /\ nonces = <<>>
    /\ cache = {}
    /\ reqs = [r \in Slots |-> IdleReq]
    /\ hist = [recorded |-> FALSE, revoked |-> {}]
    /\ unit = [fn |-> "-"]

NextRetention ==
    \/ Environment
    \/ \E q \in CoreRequests : StartRequest(1, q)
    \/ Gate(1)

SpecRetention == InitRetention /\ [][NextRetention]_vars

(* production deployments whose timestamp tolerance outlasts every token,
   with a token lifetime below, at and above the floor of the nonce
   lifetime *)
PurgeSettings ==
    { [DEBUG |-> FALSE, FRONTEND_URL |-> FrontendUrl,
       API_CHALLENGE_TOKEN_EXPIRY |-> e,
       API_REQUEST_TIMESTAMP_TOLERANCE |-> LongTolerance] :
        e \in {ConfiguredExpiry, NonceMinExpiry, NonceMinExpiry + 1} }

(* the request that is sent and replayed *)
PurgeRequests ==
    { Request(<<"POST">>, ApiOrders, <<>>, Signed(1, 1, <<"1">>, <<"n1">>)) }

InitPurge ==
    /\ now = 0
    /\ settings \in PurgeSettings
    /\ tokens = <<>>
    /\ nonces = <<>>
    /\ cache = {}
    /\ reqs = [r \in Slots |-> IdleReq]
    /\ hist = [recorded |-> FALSE, revoked |-> {}]
    /\ unit = [fn |-> "-"]

(* the clock after minutes have passed *)
Leap ==
    /\ \E t \in PurgeFrom..PurgeUntil : now < t /\ now' = t
    /\ UNCHANGED <<settings, tokens, nonces, cache, reqs, hist, unit>>

(* external housekeeping: the nonce rows that have expired are deleted *)
PurgeExpiredNonces ==
    /\ \E i \in 1..Len(nonces) : now > nonces[i].expires_at
    /\ nonces' = SelectSeq(nonces, LAMBDA n : ~(now > n.expires_at))
    /\ UNCHANGED <<now, settings, tokens, cache, reqs, hist, unit>>

(* a request is served and kept; replays of it are served by worker 2 *)
NextPurge ==
    \/ Environment
    \/ Leap
    \/ PurgeExpiredNonces
    \/ \E q \in PurgeRequests : reqs[1].pc = "idle" /\ StartRequest(1, q)
    \/ \E q \in PurgeRequests : reqs[1].pc = "done" /\ StartRequest(2, q)
    \/ \E r \in Slots : Gate(r)

SpecPurge == InitPurge /\ [][NextPurge]_vars

(* NumSlots workers of a production deployment serving requests with the
   same nonce while the database and the cache may fail under them; no row
   is deleted. *)
NextCacheOrder ==
    \/ Tick
    \/ GenerateToken
    \/ \E e \in cache : CacheEvict(e)
    \/ \E r \in Slots, q \in PurgeRequests : reqs[r].pc = "idle" /\ StartRequest(r, q)
    \/ \E r \in Slots : Gate(r)
    \/ \E r \in Slots : Fault(r)

SpecCacheOrder == InitRace /\ [][NextCacheOrder]_vars

(* requests that fail more than one check: a foreign origin without
   signature header; an empty token with a malformed timestamp; a token that
   was never issued with a malformed timestamp and a wrong signature; a
   malformed timestamp with a wrong signature *)
OrderRequests ==
    { Request(<<"POST">>, ApiOrders, <<>>,
              [h \in {"HTTP_ORIGIN"} \cup (SecurityHeaders \ {"HTTP_X_API_SIGNATURE"}) |->
                  GoodMeta(<<"https", ":", "//", "evil.example">>)[h]]),
      Request(<<"POST">>, ApiOrders, <<>>,
              [GoodMeta(FrontendUrl) EXCEPT !["HTTP_X_API_CHALLENGE_TOKEN"] = <<>>,
                                            !["HTTP_X_API_TIMESTAMP"] = <<"x">>]),
      Request(<<"POST">>, ApiOrders, <<>>,
              [GoodMeta(FrontendUrl) EXCEPT !["HTTP_X_API_CHALLENGE_TOKEN"] = <<"bogus">>,
                                            !["HTTP_X_API_TIMESTAMP"] = <<"x">>,
                                            !["HTTP_X_API_SIGNATURE"] = <<"00">>]),
      Request(<<"POST">>, ApiOrders, <<>>,
              [GoodMeta(FrontendUrl) EXCEPT !["HTTP_X_API_TIMESTAMP"] = <<"x">>,
                                            !["HTTP_X_API_SIGNATURE"] = <<"00">>]) }

(* One worker serving every kind of request, those with several defects
   included. *)
NextOrder ==
    \/ Environment
    \/ \E q \in Requests \cup OrderRequests : StartRequest(1, q)
    \/ Gate(1)

SpecOrder == Init /\ [][NextOrder]_vars

(* a request whose nonce holds the delimiter, signed by the client, and a
   request that carries the same signature with the text after the
   delimiter moved from the nonce into the method *)
DelimRequests ==
    LET sig == ClientSignature(1, NewToken(1), <<"1">>, <<"n1", "|", "POST">>,
                               <<"POST">>, ApiOrders, <<>>)
    IN  { Request(<<"POST">>, ApiOrders, <<>>,
                  Meta(FrontendUrl, NewToken(1), <<"1">>, <<"n1", "|", "POST">>, sig)),
          Request(<<"POST", "|", "POST">>, ApiOrders, <<>>,
                  Meta(FrontendUrl, NewToken(1), <<"1">>, <<"n1">>, sig)),
          Request(<<"POST">>, ApiOrders, <<>>, Signed(1, 1, <<"1">>, <<"n1">>)) }

(* Workers of a production deployment serving requests whose header values
   are whatever the client sent. *)
NextDelim ==
    \/ GenerateToken
    \/ Tick
    \/ \E e \in cache : CacheEvict(e)
    \/ \E r \in Slots, q \in DelimRequests : reqs[r].pc = "idle" /\ StartRequest(r, q)
    \/ \E r \in Slots : Gate(r)

SpecDelim == InitRace /\ [][NextDelim]_vars

(* The paths the URL configuration serves outside the gate, and OPTIONS *)
UngatedPaths ==
    { <<"/", "api", "/", "security", "/", "challenge", "/">>,
      <<"/", "health", "/">>,
      <<"/", "api", "/">>,
      <<"/", "admin", "/">>,
      <<"/", "admin", "/", "login", "/">>,
      <<"/", "static", "/", "app.js">>,
      <<"/", "media", "/", "a.png">>,
      <<"/", "api", "/", "payments", "/", "webhook", "/">> }

(* requests to those paths and preflights, without headers and with the
   headers of a request from a foreign origin *)
UngatedRequests ==
    { Request(<<"POST">>, path, <<>>, m) :
        path \in UngatedPaths,
        m \in {EmptyMeta, GoodMeta(<<"https", ":", "//", "evil.example">>)} }
    \cup
    { Request(<<"OPTIONS">>, ApiOrders, <<>>, m) :
        m \in {EmptyMeta, GoodMeta(<<"https", ":", "//", "evil.example">>)} }

(* a signed request with one of the four headers absent or empty *)
HeaderlessRequests ==
    { Request(<<"POST">>, ApiOrders, <<>>,
              [h \in DOMAIN GoodMeta(FrontendUrl) \ {x} |-> GoodMeta(FrontendUrl)[h]]) :
        x \in SecurityHeaders }
    \cup
    { Request(<<"POST">>, ApiOrders, <<>>, [GoodMeta(FrontendUrl) EXCEPT ![x] = <<>>]) :
        x \in SecurityHeaders }

(* signed requests from the configured origin, a foreign origin, a
   localhost origin, and without Origin header *)
OriginRequests ==
    { Request(<<"POST">>, ApiOrders, <<>>, GoodMeta(o)) :
        o \in { FrontendUrl, <<"https", ":", "//", "evil.example">>,
                <<"http", ":", "//", "localhost", ":", "3000">> } }
    \cup
    { Request(<<"POST">>, ApiOrders, <<>>,
              [h \in SecurityHeaders |-> GoodMeta(FrontendUrl)[h]]) }

(* One worker under every deployment, FRONTEND_URL unset included, serving
   requests that differ in path, method, origin and headers. *)
InitFront ==
    /\ now = 0
    /\ settings \in SettingsChoices
    /\ tokens = <<>>
    /\ nonces = <<>>
    /\ cache = {}
    /\ reqs = [r \in Slots |-> IdleReq]
    /\ hist = [recorded |-> FALSE, revoked |-> {}]
    /\ unit = [fn |-> "-"]

NextFront ==
    \/ GenerateToken
    \/ \E q \in UngatedRequests \cup HeaderlessRequests \cup OriginRequests :
          StartRequest(1, q)
    \/ Gate(1)

SpecFront == InitFront /\ [][NextFront]_vars

(* paths on both sides of every exclusion rule *)
SkipPaths ==
    { <<"/", "api", "/", "security", "/", "challenge", "/">>,
      <<"/", "api", "/", "security", "/", "challenge">>,
      <<"/", "api", "/", "security", "/", "challenge", "/", "x">>,
      <<"/", "api", "/">>,
      <<"/", "api">>,
      <<"/", "apix", "/">>,
      <<"/">>,
      <<"/", "health", "/">>,
      <<"/", "health", "/", "x">>,
      <<"/", "admin", "/", "login", "/">>,
      <<"/", "static", "/", "app.js">>,
      <<"/", "media", "/", "a.png">>,
      <<"/", "api", "/", "admin", "/">>,
      <<"/", "api", "/", "static", "/", "app.js">>,
      <<"/", "webhook", "/">>,
      <<"/", "api", "/", "payments", "/", "webhook", "/">>,
      <<"/", "api", "/", "orders", "/", "webhook", "/", "x">>,
      <<"/", "api", "/", "payments", "/", "webhook">>,
      <<"/", "api", "/", "payments", "/", "webhooks", "/">>,
      ApiOrders }

(* requests to those paths, unsigned and with the headers of a signed POST
   to the orders endpoint *)
SkipRequests ==
    { Request(m, path, <<>>, h) :
        m \in { <<"GET">>, <<"POST">>, <<"OPTIONS">> },
        path \in SkipPaths,
        h \in { EmptyMeta, GoodMeta(FrontendUrl) } }

NextSkip ==
    \/ GenerateToken
    \/ \E q \in SkipRequests : StartRequest(1, q)
    \/ Gate(1)

SpecSkip == InitRace /\ [][NextSkip]_vars

(* One worker serving signed requests while the database and the cache may
   fail under it. *)
NextFault ==
    \/ GenerateToken
    \/ \E e \in cache : CacheEvict(e)
    \/ \E q \in CoreRequests : StartRequest(1, q)
    \/ Gate(1)
    \/ Fault(1)

SpecFault == Init /\ [][NextFault]_vars

(* A deployment with the default token lifetime and timestamp tolerance *)
ScenarioSettings ==
    { [DEBUG |-> d, FRONTEND_URL |-> FrontendUrl,
       API_CHALLENGE_TOKEN_EXPIRY |-> DefaultTokenExpiry,
       API_REQUEST_TIMESTAMP_TOLERANCE |-> DefaultTolerance] : d \in BOOLEAN }

(* the instants at which something happens: issuance, the three requests,
   and the end of the token's lifetime *)
ScenarioInstants ==
    {0, SignedAt, ReplayAt, DefaultTolerance, DefaultTokenExpiry,
     DefaultTokenExpiry + 1, LateAt}

(* POST /api/orders/ without body under the first token, signed over the
   empty body hash with timestamp ts and nonce n *)
ScenarioRequest(ts, n) ==
    Request(<<"POST">>, ApiOrders, <<>>,
            Meta(FrontendUrl, NewToken(1), ToStr(ts), n,
                 calculate_signature(NewToken(1), NewSecret(1), ToStr(ts), n,
                                     <<"POST">>, ApiOrders, <<>>)))

InitScenario ==
    /\ now = 0
    /\ settings \in ScenarioSettings
    /\ tokens = <<>>
    /\ nonces = <<>>
    /\ cache = {}
    /\ reqs = [r \in Slots |-> IdleReq]
    /\ hist = [recorded |-> FALSE, revoked |-> {}]
    /\ unit = [fn |-> "scenario", step |-> 0]

(* the token of the scenario is issued at t = 0 *)
ScenarioIssue ==
    /\ unit.step = 0 /\ now = 0
    /\ tokens' = Append(tokens, NewTokenRow(tokens, now, now, settings))
    /\ unit' = [unit EXCEPT !.step = 1]
    /\ UNCHANGED <<now, settings, nonces, cache, reqs, hist>>

(* the instant at which the request that comes next is sent *)
ScenarioDue ==
    CASE unit.step = 1 -> SignedAt
      [] unit.step = 2 -> ReplayAt
      [] OTHER -> LateAt

(* the clock moves to a later instant, not past the next request, while no
   request is being served *)
ScenarioClock(t) ==
    /\ unit.step \in 1..3
    /\ reqs[1].pc \in {"idle", "done"}
    /\ t \in ScenarioInstants /\ t > now /\ t <= ScenarioDue
    /\ now' = t
    /\ UNCHANGED <<settings, tokens, nonces, cache, reqs, hist, unit>>

(* request A at SignedAt, the same request again at ReplayAt, and a request
   with a new nonce and the current timestamp at LateAt *)
ScenarioSend ==
    /\ unit.step \in 1..3
    /\ now = ScenarioDue
    /\ reqs[1].pc \in {"idle", "done"}
    /\ reqs' = [reqs EXCEPT ![1] =
            Front(IF unit.step = 3 THEN ScenarioRequest(LateAt, <<"n2">>)
                  ELSE ScenarioRequest(SignedAt, <<"n1">>), settings)]
    /\ unit' = [unit EXCEPT !.step = @ + 1]
    /\ UNCHANGED <<now, settings, tokens, nonces, cache, hist>>

NextScenario ==
    \/ ScenarioIssue
    \/ \E t \in ScenarioInstants : ScenarioClock(t)
    \/ ScenarioSend
    \/ Gate(1)
    \/ unit.step > 0 /\ GenerateToken
    \/ \E e \in cache : CacheEvict(e)

SpecScenario == InitScenario /\ [][NextScenario]_vars

----------------------------------------------------------------------------
(* The pure validators on drawn inputs *)

(* deployments with an allowed origin configured, written with and without
   trailing slash, or with a port *)
OriginSettings ==
    { [DEBUG |-> d, FRONTEND_URL |-> f] :
        d \in BOOLEAN,
        f \in { FrontendUrl, FrontendUrl \o <<"/">>,
                FrontendUrl \o <<":", "8443">> } }

(* values of the Origin header; NoneVal stands for an absent header *)
OriginValues ==
    { NoneVal, <<>>, <<"null">>,
      FrontendUrl, FrontendUrl \o <<"/">>, FrontendUrl \o <<"//">>,
      FrontendUrl \o <<":", "8443">>,
      <<"http", ":", "//", "app.example">>,
      <<"https", ":", "//", "evil.example">>,
      <<"https", ":", "//", "app.example.evil.example">>,
      <<"http", ":", "//", "localhost">>,
      <<"ftp", ":", "//", "app.example">> }
    \cup localhost_variants

(* values of the Referer header: pages of the sites *)
RefererValues ==
    { NoneVal,
      FrontendUrl \o <<"/", "order", "?", "id=1">>,
      FrontendUrl \o <<"?", "next=/">>,
      FrontendUrl \o <<":", "8443", "/", "order", "/">>,
      <<"https", ":", "//", "evil.example", "/", "app.example">>,
      <<"http", ":", "//", "localhost", ":", "3000", "/", "order", "#", "top">> }

(* request.META with the two headers, an absent one left out *)
OriginMeta(o, ref) ==
    [h \in { k \in {"HTTP_ORIGIN", "HTTP_REFERER"} :
                (k = "HTTP_ORIGIN" /\ o # NoneVal) \/ (k = "HTTP_REFERER" /\ ref # NoneVal) }
       |-> IF h = "HTTP_ORIGIN" THEN o ELSE ref]

InitOrigin ==
    /\ now = 0
    /\ settings \in { c \in SettingsChoices : c.FRONTEND_URL # <<>> /\ ~c.DEBUG }
    /\ tokens = <<>>
    /\ nonces = <<>>
    /\ cache = {}
    /\ reqs = [r \in Slots |-> IdleReq]
    /\ hist = [recorded |-> FALSE, revoked |-> {}]
    /\ \E o \in OriginValues, ref \in RefererValues, s \in OriginSettings :
          unit = [fn |-> "validate_origin", origin |-> o, referer |-> ref,
                  settings |-> s, done |-> FALSE,
                  out |-> [ok |-> FALSE, error |-> <<>>]]

ApplyValidateOrigin ==
    /\ unit.fn = "validate_origin"
    /\ ~unit.done
    /\ unit' = [unit EXCEPT !.done = TRUE,
                  !.out = validate_origin(OriginMeta(unit.origin, unit.referer),
                                          unit.settings)]
    /\ UNCHANGED <<now, settings, tokens, nonces, cache, reqs, hist>>

NextOrigin == ApplyValidateOrigin

SpecOrigin == InitOrigin /\ [][NextOrigin]_vars

UnitSettings ==
    { [DEBUG |-> FALSE] }
    \cup { [DEBUG |-> FALSE, API_REQUEST_TIMESTAMP_TOLERANCE |-> k] :
             k \in {0, ConfiguredTolerance} }

MalformedTimestamps == { <<>>, <<"x">>, <<"1", "x">>, <<"+">>, <<"1", " ", "2">> }

InitUnit ==
    /\ now = 0
    /\ settings \in { c \in SettingsChoices : c.FRONTEND_URL # <<>> /\ ~c.DEBUG }
    /\ tokens = <<>>
    /\ nonces = <<>>
    /\ cache = {}
    /\ reqs = [r \in Slots |-> IdleReq]
    /\ hist = [recorded |-> FALSE, revoked |-> {}]
    /\ \E t \in 0..MaxUnitTime, s \in UnitSettings :
          \/ \E v \in (0 - 2)..MaxUnitTime :
                unit = [fn |-> "validate_timestamp", kind |-> "int", value |-> v,
                        timestamp_str |-> ToStr(v), now |-> t, settings |-> s,
                        out |-> "-"]
          \/ \E m \in MalformedTimestamps :
                unit = [fn |-> "validate_timestamp", kind |-> "malformed", value |-> 0,
                        timestamp_str |-> m, now |-> t, settings |-> s, out |-> "-"]

ApplyValidateTimestamp ==
    /\ unit.fn = "validate_timestamp"
    /\ unit.out = "-"
    /\ unit' = [unit EXCEPT !.out =
                  validate_timestamp(unit.timestamp_str, unit.now, unit.settings)]
    /\ UNCHANGED <<now, settings, tokens, nonces, cache, reqs, hist>>

NextUnit == ApplyValidateTimestamp

SpecUnit == InitUnit /\ [][NextUnit]_vars

----------------------------------------------------------------------------
(* Properties *)

Started(q) == q.pc # "idle"
Finished(q) == q.pc = "done"
Allowed(q) == q.pc = "done" /\ q.outcome = "Allowed"
Rejected(q) == q.pc = "done" /\ q.outcome = "Rejected"

(* a request the gate validates: under /api/, not excluded, not OPTIONS *)
Gated(q) == Started(q) /\ ~Bypasses(q.method, q.path)

OriginPassed(q) == validate_origin(q.META, settings).ok

HeadersPassed(q) ==
    \A h \in SecurityHeaders : h \in DOMAIN q.META /\ q.META[h] \notin {<<>>, NoneVal}

(* the signature header is the HMAC of the request's canonical string under
   the secret stored for the token the request names *)
SignatureMatches(q) ==
    \E i \in 1..Len(tokens) :
        /\ tokens[i].token = TokenOf(q)
        /\ SignatureOf(q) =
             HmacHex(tokens[i].secret,
                     SignatureString(TokenOf(q), TimestampOf(q), NonceOf(q),
                                     q.method, q.path, hash_body(q.body)))

(* the request inserted the only row of its nonce *)
RegisteredNonce(q) ==
    /\ q.nonce_id \in 1..Len(nonces)
    /\ \A j \in 1..Len(nonces) : nonces[j].nonce = NonceOf(q) <=> j = q.nonce_id

TokenInvalidResponse == JsonResponse(<<"Invalid or expired token">>, 401)
SignatureMismatchResponse == JsonResponse(<<"Invalid signature">>, 401)

(* C1: a gated request is Allowed only if, in that request, the origin
   check passed, the four headers were present, the token was known,
   unexpired and unrevoked when it was validated, the timestamp was within
   tolerance, the nonce had no row before this request inserted it, and the
   signature is the HMAC of the canonical string under the token's secret. *)
C1_AllowedOnlyIfAllChecksPass ==
    \A r \in Slots :
        LET q == reqs[r]
        IN  (Gated(q) /\ Allowed(q)) =>
              /\ OriginPassed(q)
              /\ HeadersPassed(q)
              /\ q.obs.token = "usable"
              /\ q.obs.token2 = "usable"
              /\ q.obs.timestamp = "within"
              /\ q.obs.nonce = "fresh"
              /\ RegisteredNonce(q)
              /\ SignatureMatches(q)

(* a gated request was Allowed while another worker's request with the same
   nonce was rejected *)
C1_Witness ==
    \E r, k \in Slots :
        /\ r # k
        /\ Gated(reqs[r]) /\ Allowed(reqs[r])
        /\ Gated(reqs[k]) /\ Rejected(reqs[k])
        /\ NonceOf(reqs[k]) = NonceOf(reqs[r])

(* the workers' requests that got through check_nonce with nonce n *)
Accepted(n) == { r \in Slots : NonceOf(reqs[r]) = n /\ reqs[r].nonce_id # 0 }

(* the workers' requests that check_nonce refused for nonce n *)
Refused(n) == { r \in Slots : NonceOf(reqs[r]) = n /\ reqs[r].obs.nonce \in {"seen", "cached", "taken"} }

NonceValues == { NonceOf(reqs[r]) : r \in { k \in Slots : reqs[k].pc \notin {"idle"} } }

(* C2: of the concurrent check_nonce calls with one nonce value at most one
   is accepted, and exactly one as soon as any call was refused; the table
   never holds two rows for one nonce value; no two requests with the same
   nonce are both Allowed. *)
C2_OneAcceptedPerNonce ==
    /\ \A i, j \in 1..Len(nonces) : nonces[i].nonce = nonces[j].nonce => i = j
    /\ \A n \in NonceValues :
          /\ Cardinality(Accepted(n)) <= 1
          /\ Refused(n) # {} => Cardinality(Accepted(n)) = 1
          /\ Cardinality({ r \in Slots : NonceOf(reqs[r]) = n /\ Gated(reqs[r])
                                          /\ Allowed(reqs[r]) }) <= 1

(* two calls with the same nonce both passed the lookup; one inserted the
   row and the insert of the other was refused *)
C2_Witness ==
    \E r, k \in Slots :
        /\ r # k
        /\ NonceOf(reqs[r]) = NonceOf(reqs[k])
        /\ reqs[r].nonce_id # 0
        /\ reqs[k].obs.nonce = "taken"

(* C3: a request whose insert hits the uniqueness constraint is answered
   with the 401 nonce-reuse rejection, never with a 500. *)
C3_ConstraintViolationIsNonceReused ==
    \A r \in Slots :
        reqs[r].obs.nonce = "taken" => reqs[r].response = NonceReusedResponse

(* C4: when a request was Allowed, every other request with the same nonce
   that got past the timestamp step is rejected as NonceReused (401),
   whether it came later or concurrently. *)
C4_ReplayIsNonceReused ==
    \A r, k \in Slots :
        ( /\ r # k
          /\ Gated(reqs[r]) /\ Allowed(reqs[r])
          /\ NonceOf(reqs[k]) = NonceOf(reqs[r])
          /\ reqs[k].obs.timestamp = "within"
          /\ Finished(reqs[k]) )
        => reqs[k].response = NonceReusedResponse

(* C5: a gated request from an accepted origin with the four headers, a
   token that is usable whenever it is validated, a timestamp within
   tolerance, a nonce without a row when it is inserted and the right
   signature is Allowed. *)
C5_ValidRequestAllowed ==
    \A r \in Slots :
        LET q == reqs[r]
        IN  ( /\ Gated(q) /\ Finished(q)
              /\ OriginPassed(q)
              /\ HeadersPassed(q)
              /\ q.obs.token = "usable"
              /\ q.obs.timestamp \in {"-", "within"}
              /\ q.obs.nonce \in {"-", "fresh"}
              /\ q.obs.token2 \in {"-", "usable"}
              /\ SignatureMatches(q) )
            => Allowed(q)

(* such a request went through every step and was Allowed *)
C5_Witness ==
    \E r \in Slots :
        LET q == reqs[r]
        IN  /\ Gated(q) /\ Allowed(q)
            /\ q.obs.token = "usable" /\ q.obs.timestamp = "within"
            /\ q.obs.nonce = "fresh" /\ q.obs.token2 = "usable"
            /\ SignatureMatches(q)

(* C6: at the token step a token passes iff it is not revoked and
   now <= expires_at; a request whose token is unknown, revoked or past its
   expiry is rejected with 401 'Invalid or expired token'. *)
C6_TokenValidIffNotRevokedNotExpired ==
    \A r \in Slots :
        LET q == reqs[r]
        IN  /\ q.obs.token = "usable" =>
                  ~(Finished(q) /\ q.obs.timestamp = "-")
            /\ q.obs.token \in {"unknown", "revoked", "expired"} =>
                  (Rejected(q) /\ q.response = TokenInvalidResponse)

(* a request with the right signature, a fresh nonce and a timestamp within
   tolerance was rejected because its token is past its expiry *)
C6_Witness ==
    \E r \in Slots :
        LET q == reqs[r]
        IN  /\ Rejected(q) /\ q.obs.token = "expired"
            /\ q.response = TokenInvalidResponse
            /\ SignatureMatches(q)
            /\ ~nonce_exists(nonces, NonceOf(q))
            /\ ObserveTimestamp(TimestampOf(q), now, settings) = "within"

(* C7: a gated request that starts after revoke() of its token completed
   and reaches the token step is rejected as TokenInvalid. *)
C7_RevokedTokenRejected ==
    \A r \in Slots :
        LET q == reqs[r]
        IN  (q.obs.after_revoke /\ q.obs.token # "-") =>
                (Rejected(q) /\ q.response = TokenInvalidResponse)

(* C8: once is_revoked is true no step sets it back to false. *)
C8_RevocationPermanent ==
    [][\A i \in 1..Len(tokens) : tokens[i].is_revoked => tokens'[i].is_revoked]_vars

(* C9: validate_timestamp accepts the decimal string of an integer v iff
   now - v <= tolerance and v - now <= tolerance, the tolerance being the
   setting, or 60 when it is not set. *)
C9_TimestampWithinTolerance ==
    (unit.fn = "validate_timestamp" /\ unit.out # "-" /\ unit.kind = "int") =>
        LET tol == IF "API_REQUEST_TIMESTAMP_TOLERANCE" \in DOMAIN unit.settings
                   THEN unit.settings.API_REQUEST_TIMESTAMP_TOLERANCE
                   ELSE DefaultTolerance
        IN  unit.out = "ok" <=>
               (unit.now - unit.value <= tol /\ unit.value - unit.now <= tol)

(* with the default tolerance a timestamp exactly 60 seconds in the future
   was accepted *)
C9_Witness ==
    /\ unit.fn = "validate_timestamp" /\ unit.kind = "int"
    /\ "API_REQUEST_TIMESTAMP_TOLERANCE" \notin DOMAIN unit.settings
    /\ unit.value - unit.now = DefaultTolerance
    /\ unit.out = "ok"

(* C10: a request that reaches signature verification with a signature
   other than the HMAC under its token's secret is rejected with 401
   'Invalid signature'. *)
C10_WrongSignatureIsMismatch ==
    \A r \in Slots :
        LET q == reqs[r]
        IN  (q.obs.token2 # "-" /\ ~SignatureMatches(q)) =>
                (Rejected(q) /\ q.response = SignatureMismatchResponse)

(* C11: a request that ends Rejected, at whatever step, has inserted no
   nonce row: the nonce table is as it was before the request. *)
C11_RejectedRegistersNoNonce ==
    \A r \in Slots :
        Rejected(reqs[r]) => reqs[r].nonce_id = 0

(* C12: two requests the gate rejected with an authentication failure (401)
   carry the same response, whatever check each of them failed. *)
C12_RejectionsIndistinguishable ==
    \A r, k \in Slots :
        ( /\ Rejected(reqs[r]) /\ reqs[r].response.status = 401
          /\ Rejected(reqs[k]) /\ reqs[k].response.status = 401 )
        => reqs[r].response = reqs[k].response

(* C13: two requests whose tokens were, at the token step, unknown, expired
   or revoked carry the same response: same status, same body. *)
C13_TokenFailuresIndistinguishable ==
    \A r, k \in Slots :
        ( /\ reqs[r].obs.token \in {"unknown", "expired", "revoked"}
          /\ reqs[k].obs.token \in {"unknown", "expired", "revoked"} )
        => ( /\ Rejected(reqs[r]) /\ Rejected(reqs[k])
             /\ reqs[r].response = reqs[k].response )

(* one request was rejected for a token that was never issued and another,
   the same in every other field, for a token that was revoked or expired *)
C13_Witness ==
    \E r, k \in Slots :
        /\ reqs[r].obs.token = "unknown"
        /\ reqs[k].obs.token \in {"revoked", "expired"}
        /\ Rejected(reqs[r]) /\ Rejected(reqs[k])
        /\ TimestampOf(reqs[r]) = TimestampOf(reqs[k])
        /\ NonceOf(reqs[r]) = NonceOf(reqs[k])
        /\ reqs[r].path = reqs[k].path

(* the gate did nothing for the request: no token lookup, no timestamp or
   nonce check, no row inserted *)
Untouched(q) ==
    /\ q.obs.token = "-" /\ q.obs.timestamp = "-" /\ q.obs.nonce = "-"
    /\ q.obs.token2 = "-" /\ q.token_obj = 0 /\ q.nonce_id = 0

(* C14: a gated request that passes the origin check and lacks one of the
   four headers, or carries it empty, is rejected with 401 and an error
   body, with no token lookup and no nonce row. *)
C14_MissingHeaderRejected ==
    \A r \in Slots :
        LET q == reqs[r]
        IN  (Gated(q) /\ OriginPassed(q) /\ ~HeadersPassed(q)) =>
              /\ Rejected(q)
              /\ q.response.status = 401 /\ q.response.error # <<>>
              /\ Untouched(q)

(* a request whose only defect is an empty X-Api-Challenge-Token was
   rejected while the token it would have named is stored *)
C14_Witness ==
    \E r \in Slots :
        LET q == reqs[r]
        IN  /\ Gated(q) /\ OriginPassed(q) /\ Rejected(q)
            /\ "HTTP_X_API_CHALLENGE_TOKEN" \in DOMAIN q.META
            /\ TokenOf(q) = <<>>
            /\ \A h \in SecurityHeaders \ {"HTTP_X_API_CHALLENGE_TOKEN"} :
                   h \in DOMAIN q.META /\ Truthy(q.META[h])
            /\ Len(tokens) > 0

(* the exclusions the gate is to honour: the listed paths and prefixes, the
   payment webhook, and the OPTIONS method *)
Excluded(q) ==
    \/ q.path \in { <<"/", "api", "/", "security", "/", "challenge", "/">>,
                     <<"/", "health", "/">>, <<"/", "api", "/">> }
    \/ \E p \in { <<"/", "admin", "/">>, <<"/", "static", "/">>, <<"/", "media", "/">> } :
          StartsWith(q.path, p)
    \/ q.path = <<"/", "api", "/", "payments", "/", "webhook", "/">>
    \/ q.method = <<"OPTIONS">>

(* C15: a request to an excluded path, or an OPTIONS request, is Allowed
   whatever it carries, with no token lookup and no nonce row. *)
C15_ExcludedBypasses ==
    \A r \in Slots :
        LET q == reqs[r]
        IN  (Started(q) /\ Excluded(q)) =>
              (Allowed(q) /\ q.response = NoResponse /\ Untouched(q))

(* a preflight to a protected path from a foreign origin was let through
   where no origin is accepted *)
C15_Witness ==
    \E r \in Slots :
        LET q == reqs[r]
        IN  /\ Allowed(q) /\ q.method = <<"OPTIONS">> /\ q.path = ApiOrders
            /\ ~OriginPassed(q)

(* C18: with FRONTEND_URL unset, a gated request is rejected without any
   lookup unless DEBUG is on, and with DEBUG on no request is rejected for
   its origin. *)
C18_UnconfiguredOrigin ==
    \A r \in Slots :
        LET q == reqs[r]
        IN  (settings.FRONTEND_URL = <<>> /\ Gated(q)) =>
              IF settings.DEBUG
              THEN Rejected(q) /\ Untouched(q) =>
                     q.response = JsonResponse(<<"Missing required security headers">>, 401)
              ELSE Rejected(q) /\ Untouched(q) /\ q.response.status = 401

(* with FRONTEND_URL unset and DEBUG on, a signed request from a foreign
   origin was Allowed *)
C18_Witness ==
    \E r \in Slots :
        LET q == reqs[r]
        IN  /\ settings.FRONTEND_URL = <<>> /\ settings.DEBUG
            /\ Gated(q) /\ Allowed(q)
            /\ Hdr(q, "HTTP_ORIGIN") = <<"https", ":", "//", "evil.example">>

(* the request's nonce has a row that was registered under another token
   than the one the request presents *)
NonceOfOtherToken(q) ==
    /\ q.token_obj # 0
    /\ \E j \in 1..Len(nonces) :
          /\ nonces[j].nonce = NonceOf(q)
          /\ nonces[j].token # q.token_obj
          /\ j # q.nonce_id

(* C16: a request with a valid token whose nonce was registered under
   another token, and which reached the nonce step, is rejected as
   NonceReused. *)
C16_NonceGlobalAcrossTokens ==
    \A r \in Slots :
        LET q == reqs[r]
        IN  (NonceOfOtherToken(q) /\ q.obs.nonce # "-") =>
              (Rejected(q) /\ q.response = NonceReusedResponse /\ q.nonce_id = 0)

(* a request under token 2 was refused for a nonce registered under token 1
   although token 2 was usable and the cache entry was gone *)
C16_Witness ==
    \E r \in Slots :
        LET q == reqs[r]
        IN  /\ NonceOfOtherToken(q) /\ q.obs.nonce = "seen"
            /\ q.obs.token = "usable" /\ q.token_obj = 2
            /\ q.response = NonceReusedResponse
            /\ cache = {}

(* C17: a request during whose validation a store or cache operation failed
   is rejected with status 500. *)
C17_FailsClosed ==
    \A r \in Slots :
        LET q == reqs[r]
        IN  q.obs.fault # "-" =>
              (Rejected(q) /\ ~Allowed(q) /\ q.response.status = 500)

(* cache.set failed after the nonce row of a request with a usable token was
   inserted, and the request was rejected with 500 *)
C17_Witness ==
    \E r \in Slots :
        LET q == reqs[r]
        IN  /\ q.obs.fault = "cache.set" /\ q.obs.token = "usable"
            /\ RegisteredNonce(q)
            /\ Rejected(q) /\ q.response.status = 500

(* C19: with lifetime 300 and tolerance 60, the request sent at t = 10 is
   Allowed, the same request sent again at t = 15 is rejected as
   NonceReused, and the request sent at t = 400 with a new nonce is rejected
   as TokenInvalid and leaves no row for its nonce. *)
C19_Scenario ==
    (unit.fn = "scenario" /\ Finished(reqs[1])) =>
        /\ unit.step = 2 => (Gated(reqs[1]) /\ Allowed(reqs[1]))
        /\ unit.step = 3 => (Rejected(reqs[1]) /\ reqs[1].response = NonceReusedResponse)
        /\ unit.step = 4 =>
              /\ Rejected(reqs[1]) /\ reqs[1].response = TokenInvalidResponse
              /\ \A j \in 1..Len(nonces) : nonces[j].nonce # <<"n2">>

(* the third request was answered at t = 400, the token having been issued
   at 0 with expiry at 300 and the first nonce registered at 10 *)
C19_Witness ==
    /\ unit.fn = "scenario" /\ unit.step = 4 /\ Finished(reqs[1])
    /\ now = 400
    /\ tokens[1].created_at = 0 /\ tokens[1].expires_at = 300
    /\ Len(nonces) = 1 /\ nonces[1].used_at = 10
    /\ NonceOf(reqs[1]) = <<"n2">>

(* C20: a request whose nonce has a row while the cache holds no entry for
   it is rejected as NonceReused and inserts nothing. *)
C20_CacheNotAuthoritative ==
    \A r \in Slots :
        LET q == reqs[r]
        IN  (q.obs.cache = "miss" /\ q.obs.nonce \in {"seen", "taken"}) =>
              (Rejected(q) /\ q.response = NonceReusedResponse /\ q.nonce_id = 0)

(* a correctly signed request under a usable token was refused for a nonce
   whose row exists and whose cache entry was gone *)
C20_Witness ==
    \E r \in Slots :
        LET q == reqs[r]
        IN  /\ q.obs.cache = "miss" /\ q.obs.nonce = "seen"
            /\ q.obs.token = "usable" /\ SignatureMatches(q)
            /\ q.response = NonceReusedResponse
            /\ \E j \in 1..Len(nonces) : nonces[j].nonce = NonceOf(q)

(* the first step, in the order origin, headers, token, timestamp, nonce,
   signature, that the request fails, as far as the request ran; "-" when
   none *)
FirstFailure(q) ==
    CASE ~OriginPassed(q) -> "origin"
      [] ~HeadersPassed(q) -> "headers"
      [] q.obs.token \in {"unknown", "expired", "revoked"} -> "token"
      [] q.obs.timestamp \in {"malformed", "outside"} -> "timestamp"
      [] q.obs.nonce \in {"seen", "cached", "taken"} -> "nonce"
      [] q.obs.token2 # "-" /\ (q.obs.token2 # "usable" \/ ~SignatureMatches(q)) -> "signature"
      [] OTHER -> "-"

(* the steps that ran for the request, in the order they ran *)
StepsRun(q) ==
    <<q.obs.token # "-", q.obs.timestamp # "-", q.obs.cache # "-",
      q.nonce_id # 0, q.obs.token2 # "-">>

(* C21: the steps of a gated request run in the fixed order, each only
   after the ones before it passed; a finished request that failed a step
   carries that step's rejection, and no step ran after the failing one. *)
C21_FirstFailureReported ==
    \A r \in Slots :
        LET q == reqs[r]
            f == FirstFailure(q)
            ran == StepsRun(q)
        IN  Gated(q) =>
              /\ \A i, j \in 1..5 : (i < j /\ ran[j]) => ran[i]
              /\ ran[1] => (OriginPassed(q) /\ HeadersPassed(q))
              /\ ran[2] => q.obs.token = "usable"
              /\ ran[3] => q.obs.timestamp = "within"
              /\ ran[5] => q.obs.nonce = "fresh"
              /\ f = "origin" => (Rejected(q) /\ Untouched(q) /\ q.response.status = 401
                                  /\ StartsWith(q.response.error, <<"Invalid origin: ">>))
              /\ f = "headers" =>
                    (Rejected(q) /\ Untouched(q)
                     /\ q.response = JsonResponse(<<"Missing required security headers">>, 401))
              /\ f = "token" => (Rejected(q) /\ q.response = TokenInvalidResponse /\ ~ran[2])
              /\ f = "timestamp" =>
                    (Rejected(q) /\ q.response.status = 401 /\ ~ran[3]
                     /\ (StartsWith(q.response.error, <<"Invalid timestamp format">>)
                          \/ StartsWith(q.response.error,
                                        <<"Timestamp outside tolerance window (+-">>)))
              /\ f = "nonce" => (Rejected(q) /\ q.nonce_id = 0 /\ ~ran[5])
              /\ f = "signature" => Rejected(q)

(* a request with an unissued token, a malformed timestamp and a wrong
   signature, its nonce being registered already, was rejected for its
   token *)
C21_Witness ==
    \E r \in Slots :
        LET q == reqs[r]
        IN  /\ Rejected(q) /\ q.response = TokenInvalidResponse
            /\ TokenOf(q) = <<"bogus">> /\ TimestampOf(q) = <<"x">>
            /\ ~SignatureMatches(q)
            /\ \E j \in 1..Len(nonces) : nonces[j].nonce = NonceOf(q)

(* the six fields that enter the canonical string of a request *)
SignedFields(q) ==
    <<TokenOf(q), TimestampOf(q), NonceOf(q), q.method, q.path, hash_body(q.body)>>

(* two Allowed requests that carry the same signature have the same six
   fields *)
SameSignatureSameFields ==
    \A r, k \in Slots :
        ( /\ Gated(reqs[r]) /\ Allowed(reqs[r])
          /\ Gated(reqs[k]) /\ Allowed(reqs[k])
          /\ SignatureOf(reqs[r]) = SignatureOf(reqs[k]) )
        => SignedFields(reqs[r]) = SignedFields(reqs[k])

(* C22: no field of a request that reaches signature verification holds the
   delimiter, and a signature accepted for one tuple of fields is not
   accepted for another. *)
C22_FieldsDelimiterFree ==
    /\ \A r \in Slots :
          reqs[r].obs.token2 # "-" =>
             \A i \in 1..6 : ~Contains(SignedFields(reqs[r])[i], <<"|">>)
    /\ SameSignatureSameFields

(* a URL cut down to scheme, host and port: what precedes the path, the
   query and the fragment *)
SchemeHostPort(u) ==
    IF Len(u) >= 4 /\ u[2] = ":" /\ u[3] = "//"
    THEN IF Len(u) >= 6 /\ u[5] = ":" THEN SubSeq(u, 1, 6) ELSE SubSeq(u, 1, 4)
    ELSE u

(* the header the origin is taken from: Origin, or Referer when Origin is
   absent or empty, or nothing *)
ClaimedOrigin ==
    IF unit.origin \notin {NoneVal, <<>>} THEN unit.origin
    ELSE IF unit.referer # NoneVal THEN unit.referer
    ELSE <<>>

(* C23: with an allowed origin configured, validate_origin passes iff the
   Origin header, or the Referer header when there is no Origin, cut down
   to scheme, host and port and without trailing slashes equals the
   configured origin without trailing slashes or, under DEBUG only, is a
   localhost variant; without both headers it fails. *)
C23_OriginMatch ==
    (unit.fn = "validate_origin" /\ unit.done) =>
        LET reduced == RStripSlash(SchemeHostPort(ClaimedOrigin))
        IN  /\ unit.out.ok <=>
                  \/ reduced = RStripSlash(unit.settings.FRONTEND_URL)
                  \/ unit.settings.DEBUG /\ reduced \in localhost_variants
            /\ (unit.origin = NoneVal /\ unit.referer = NoneVal) => ~unit.out.ok
            /\ (~unit.settings.DEBUG /\ reduced \in localhost_variants) => ~unit.out.ok

(* without Origin header, the Referer of a page of the configured site with
   path and query was accepted, the setting being written with a trailing
   slash *)
C23_Witness ==
    /\ unit.fn = "validate_origin" /\ unit.done /\ unit.out.ok
    /\ unit.origin = NoneVal
    /\ unit.referer = FrontendUrl \o <<"/", "order", "?", "id=1">>
    /\ unit.settings.FRONTEND_URL = FrontendUrl \o <<"/">>
    /\ ~unit.settings.DEBUG

(* the configured lifetime of a token *)
TokenTTL == GetSetting(settings, "API_CHALLENGE_TOKEN_EXPIRY", DefaultTokenExpiry)

(* a step that adds one token row behind the existing ones, unrevoked and
   with a token string of its own, and leaves the existing token rows and
   the nonce rows as they are *)
OneTokenWritten ==
    /\ Len(tokens') = Len(tokens) + 1
    /\ SubSeq(tokens', 1, Len(tokens)) = tokens
    /\ nonces' = nonces
    /\ ~tokens'[Len(tokens')].is_revoked
    /\ \A i \in 1..Len(tokens) : tokens[i].token # tokens'[Len(tokens')].token

(* C24 as amended: a step that changes the number of token rows is one
   write of generate_token: it adds one row with expires_at = the clock
   reading of the call + the configured lifetime, unrevoked, its token
   distinct from every existing one, and leaves the existing token rows and
   all nonce rows unchanged. *)
C24_GenerateTokenWrites ==
    [][Len(tokens') # Len(tokens) =>
          /\ OneTokenWritten
          /\ tokens'[Len(tokens')].expires_at = now + TokenTTL]_vars

(* C24 as stated: the new row has moreover expires_at = created_at + the
   configured lifetime. *)
C24_ExpiryFromCreation ==
    [][Len(tokens') # Len(tokens) =>
          /\ OneTokenWritten
          /\ tokens'[Len(tokens')].expires_at = now + TokenTTL
          /\ tokens'[Len(tokens')].expires_at
                = tokens'[Len(tokens')].created_at + TokenTTL]_vars

(* a second token was issued while a nonce was registered, and its
   created_at was read after the instant its expires_at was computed from *)
C24_Witness ==
    /\ Len(tokens) = 2
    /\ Len(nonces) >= 1
    /\ tokens[2].token # tokens[1].token
    /\ tokens[2].expires_at < tokens[2].created_at + TokenTTL
    /\ tokens[2].created_at > nonces[1].used_at

(* the larger of the configured token lifetime and 300 seconds *)
Retention == IF TokenTTL < NonceMinExpiry THEN NonceMinExpiry ELSE TokenTTL

(* a step that registers a nonce writes the cache entry of that nonce with
   the retention as its timeout *)
CacheEntryWritten ==
    [key |-> <<"api_nonce:">> \o nonces'[Len(nonces')].nonce, timeout |-> Retention]
        \in cache'

(* C25 as amended: a step that adds a nonce row is one check_nonce: the row
   has expires_at = the clock reading of the call + max(configured token
   lifetime, 300), the cache entry written for it has the same number of
   seconds as its timeout, and with a lifetime below 300 both are 300. *)
C25_NonceRetention ==
    [][Len(nonces') # Len(nonces) =>
          /\ Len(nonces') = Len(nonces) + 1
          /\ nonces'[Len(nonces')].expires_at = now + Retention
          /\ CacheEntryWritten
          /\ TokenTTL < 300 => nonces'[Len(nonces')].expires_at = now + 300]_vars

(* C25 as stated: the row has expires_at = used_at + max(configured token
   lifetime, 300). *)
C25_ExpiryFromUse ==
    [][Len(nonces') # Len(nonces) =>
          /\ Len(nonces') = Len(nonces) + 1
          /\ nonces'[Len(nonces')].expires_at
                = nonces'[Len(nonces')].used_at + Retention
          /\ CacheEntryWritten
          /\ TokenTTL < 300 => Retention = 300]_vars

(* with a token lifetime of one second a nonce was registered for 300
   seconds from the reading taken before its used_at, and its cache entry
   has a timeout of 300 *)
C25_Witness ==
    /\ TokenTTL = 1
    /\ Len(nonces) = 1
    /\ nonces[1].expires_at = nonces[1].used_at - 1 + 300
    /\ [key |-> <<"api_nonce:">> \o nonces[1].nonce, timeout |-> 300] \in cache

(* the request of worker r is at the origin and header checks (about to
   start), at the token step or at the timestamp step *)
BeforeNonceStep(r) == reqs[r].pc \in {"idle", "done", "token", "timestamp"}

(* C26: a step of the gate leaves the token rows as they are; a step of the
   origin, header, token or timestamp check leaves the nonce rows and the
   cache as they are, so that a request rejected there has registered no
   nonce; and a step that rejects with 'Nonce has already been used' leaves
   the nonce rows, the registered one among them, as they are. *)
C26_GateFrame ==
    [][\A r \in Slots :
          /\ reqs'[r] # reqs[r] =>
                /\ tokens' = tokens
                /\ BeforeNonceStep(r) => (nonces' = nonces /\ cache' = cache)
                /\ (Rejected(reqs'[r]) /\ reqs'[r].response = NonceReusedResponse)
                      => nonces' = nonces
          /\ ( /\ Gated(reqs[r]) /\ Rejected(reqs[r])
               /\ FirstFailure(reqs[r]) \in {"origin", "headers", "token", "timestamp"} )
                => reqs[r].nonce_id = 0]_vars

(* the replay of a registered nonce was rejected as reused while the cache
   held an entry, and registered no row of its own *)
C26_Witness ==
    /\ Len(nonces) = 1 /\ cache # {}
    /\ Rejected(reqs[1])
    /\ reqs[1].response = NonceReusedResponse
    /\ NonceOf(reqs[1]) = nonces[1].nonce
    /\ reqs[1].nonce_id = 0

(* every nonce row expires no earlier than the token row it refers to *)
NonceOutlivesToken ==
    \A i \in 1..Len(nonces) :
        nonces[i].expires_at >= tokens[nonces[i].token].expires_at

(* a nonce row that housekeeping may delete belongs to a token that no
   longer validates *)
PurgeableMeansTokenExpired ==
    \A i \in 1..Len(nonces) :
        now > nonces[i].expires_at => ~is_valid(tokens[nonces[i].token], now)

(* C27: with the configured lifetime constant, every nonce row has
   expires_at >= the expires_at of its token; a row that has expired belongs
   to an expired token, and with expired rows purged and cache entries
   dropped the replay of an Allowed request is not Allowed. *)
C27_NonceOutlivesToken ==
    /\ NonceOutlivesToken
    /\ PurgeableMeansTokenExpired
    /\ (Gated(reqs[1]) /\ Allowed(reqs[1])) => ~Allowed(reqs[2])

(* the request was Allowed, its nonce row expired and was purged, no cache
   entry is left, and the replay was rejected because the token has
   expired *)
C27_Witness ==
    /\ Gated(reqs[1]) /\ Allowed(reqs[1])
    /\ nonces = <<>> /\ cache = {}
    /\ Rejected(reqs[2])
    /\ reqs[2].obs.token = "expired"
    /\ ~tokens[1].is_revoked

(* the token of the request validated at the token step and no longer
   validates when validate_signature looks it up *)
TokenLostBetween(q) ==
    q.obs.token = "usable" /\ q.obs.token2 \in {"expired", "revoked"}

(* C28: an Allowed request had its token validated at the token step and
   again at the signature step; a request whose token expired or was
   revoked between the two is rejected with 401 'Invalid signature', and
   the nonce row it registered at the nonce step is still stored. *)
C28_TokenValidatedTwice ==
    \A r \in Slots :
        LET q == reqs[r]
        IN  /\ (Gated(q) /\ Allowed(q)) =>
                  (q.obs.token = "usable" /\ q.obs.token2 = "usable")
            /\ (Gated(q) /\ Finished(q) /\ TokenLostBetween(q)) =>
                  /\ Rejected(q)
                  /\ q.response = SignatureMismatchResponse
                  /\ q.nonce_id # 0
                  /\ \E i \in 1..Len(nonces) :
                        /\ nonces[i].id = q.nonce_id
                        /\ nonces[i].nonce = NonceOf(q)

(* a correctly signed request whose token expired after the token step while
   unrevoked was rejected at the signature step, its nonce row stored *)
C28_Witness ==
    /\ Rejected(reqs[1])
    /\ reqs[1].obs.token = "usable" /\ reqs[1].obs.token2 = "expired"
    /\ SignatureMatches(reqs[1])
    /\ reqs[1].response = SignatureMismatchResponse
    /\ Len(nonces) = 1 /\ nonces[1].nonce = NonceOf(reqs[1])

(* the nonce has a row *)
DurablyRegistered(nonce) == \E i \in 1..Len(nonces) : nonces[i].nonce = nonce

(* C29: with no row deleted, every cache entry is the flag of a nonce that
   has a row, and no request was rejected on a cache hit for a nonce
   without a row. *)
C29_CacheAfterInsert ==
    /\ \A e \in cache :
          \E i \in 1..Len(nonces) : e.key = <<"api_nonce:">> \o nonces[i].nonce
    /\ \A r \in Slots :
          reqs[r].obs.cache = "hit" => DurablyRegistered(NonceOf(reqs[r]))

(* the insert of one request failed and left neither row nor cache entry;
   the same nonce was then registered by the other request and is in the
   cache *)
C29_Witness ==
    /\ reqs[1].obs.fault = "ApiNonce.objects.create"
    /\ Allowed(reqs[2])
    /\ NonceOf(reqs[1]) = NonceOf(reqs[2])
    /\ Len(nonces) = 1
    /\ cache # {}

(* the requests C30 says skip validation *)
SkipsValidation(q) ==
    \/ q.path \in { <<"/", "api", "/", "security", "/", "challenge", "/">>,
                     <<"/", "admin", "/">>, <<"/", "health", "/">>, <<"/", "api", "/">> }
    \/ \E p \in { <<"/", "admin", "/">>, <<"/", "static", "/">>, <<"/", "media", "/">> } :
          StartsWith(q.path, p)
    \/ q.method = <<"OPTIONS">>
    \/ ~StartsWith(q.path, <<"/", "api", "/">>)
    \/ Contains(q.path, <<"/", "webhook", "/">>)

(* the request passed every check of the gate *)
PassedFullChain(q) ==
    /\ OriginPassed(q) /\ HeadersPassed(q)
    /\ q.obs.token = "usable" /\ q.obs.timestamp = "within"
    /\ q.obs.nonce = "fresh" /\ RegisteredNonce(q)
    /\ q.obs.token2 = "usable" /\ SignatureMatches(q)

(* C30: a request whose path is one of the four excluded paths, starts
   with /admin/, /static/ or /media/, does not start with /api/ or contains
   /webhook/, or whose method is OPTIONS, is Allowed with no check run; any
   other request, once answered, was rejected or passed the full chain. *)
C30_SkipsExactly ==
    \A r \in Slots :
        LET q == reqs[r]
        IN  Started(q) =>
              IF SkipsValidation(q)
              THEN Allowed(q) /\ q.response = NoResponse /\ Untouched(q)
              ELSE Finished(q) => (Rejected(q) \/ (Allowed(q) /\ PassedFullChain(q)))

(* an unsigned POST to a path under /api/ that holds /webhook/ in its middle
   was let through with no check run *)
C30_Witness ==
    /\ Allowed(reqs[1]) /\ Untouched(reqs[1])
    /\ reqs[1].method = <<"POST">>
    /\ reqs[1].path = <<"/", "api", "/", "orders", "/", "webhook", "/", "x">>
    /\ reqs[1].META = EmptyMeta

====
